---- MODULE Spec2Model ----
(***************************************************************************)
(* ASAPSchedule.run (qiskit/transpiler/passes/scheduling/asap.py) and      *)
(* RemoveDelaysOnIdleQubits.run                                            *)
(* (qiskit/transpiler/passes/utils/remove_delays_on_idle_qubits.py) as a   *)
(* state machine.  A circuit is built upstream, ASAPSchedule.run times it  *)
(* into a new DAGCircuit, RemoveDelaysOnIdleQubits.run then edits that     *)
(* DAGCircuit in place.                                                    *)
(***************************************************************************)
EXTENDS Integers, Sequences, FiniteSets, TLC

\* ---------------------------------------------------------------- bounds
MaxOps == 2
MaxDur == 2
MaxRuns == 2

\* ------------------------------------------------------------ basic data
\* Python's None, for a duration that is not set or cannot be resolved.
NoDuration == -1

Qubits == <<"q0", "q1">>
Clbits == <<"c0">>
Units == {"dt", "s"}

Range(s) == {s[i] : i \in 1..Len(s)}

Max(S) == CHOOSE x \in S : \A y \in S : y <= x
Min(S) == CHOOSE x \in S : \A y \in S : x <= y

RECURSIVE SumSeq(_)
SumSeq(s) == IF s = <<>> THEN 0 ELSE Head(s) + SumSeq(Tail(s))

\* The operations a circuit is made of: operands, classical condition and
\* whether the payload is a Delay.
OpShapes ==
  { [name |-> "gate",    qargs |-> <<"q0">>,       cargs |-> <<>>,     condition |-> <<>>],
    [name |-> "gate",    qargs |-> <<"q0", "q1">>, cargs |-> <<>>,     condition |-> <<>>],
    [name |-> "measure", qargs |-> <<"q0">>,       cargs |-> <<"c0">>, condition |-> <<>>],
    [name |-> "gate",    qargs |-> <<"q1">>,       cargs |-> <<>>,     condition |-> <<"c0">>],
    [name |-> "delay",   qargs |-> <<"q1">>,       cargs |-> <<>>,     condition |-> <<>>] }

isDelay(op) == op.name = "delay"

\* What the caller hands over: the payload shape and the duration the
\* provider has for it (NoDuration: the provider cannot resolve it).  A
\* Delay carries its own duration, which the provider always resolves.
OpChoices ==
  { c \in [shape : OpShapes, d : {NoDuration} \cup (0..MaxDur)] :
      isDelay(c.shape) => c.d # NoDuration }

VARIABLES
  dag,                 \* the input DAGCircuit of ASAPSchedule.run
  ops,                 \* the heap of Instruction objects: name, duration, unit
  durations,           \* self.durations: input op -> duration or NoDuration
  time_unit,           \* the time unit of the run
  new_dag,             \* the local DAGCircuit being built (NoGraph outside the run)
  bit_time_available,  \* the defaultdict(int): a function on its keys
  done,                \* the input nodes the traversal has yielded so far
  result,              \* the DAGCircuit returned by ASAPSchedule.run, then
                       \* edited in place by RemoveDelaysOnIdleQubits.run
  before,              \* history: [dag, ops], the graph and the heap as they
                       \* were when RemoveDelaysOnIdleQubits.run began
  ops_before,          \* history: the heap as it was before ASAPSchedule.run
  qi,                  \* position of the `for q in dag.qubits` loop (line 39)
  removed,             \* the local flag of RemoveDelaysOnIdleQubits.run
  runs,                \* the calls of RemoveDelaysOnIdleQubits.run so far
  pc

vars == <<dag, ops, durations, time_unit, new_dag, bit_time_available, done,
          result, before, ops_before, qi, removed, runs, pc>>

NoGraph == [qregs |-> {}, nodes |-> <<>>, duration |-> NoDuration, unit |-> "none"]

\* DAGCircuit(): no nodes, duration None, unit "dt".
DAGCircuit(qregs) ==
  [qregs |-> qregs, nodes |-> <<>>, duration |-> NoDuration, unit |-> "dt"]

\* -------------------------------------------------- the DAGCircuit surface
\* The lanes a node lies on in the graph: its operands and the bits of its
\* classical condition.
wires(node) == Range(node.qargs) \cup Range(node.cargs) \cup Range(node.condition)

\* dag.nodes_on_wire(b, only_ops=True)
nodes_on_wire(g, b) == SelectSeq(g.nodes, LAMBDA n : b \in wires(n))

\* new_dag.apply_operation_back(op, qargs, cargs, condition): the node holds
\* the payload it was given.  start is history: the start time the caller
\* had computed for the node.
apply_operation_back(g, op, qargs, cargs, condition, start) ==
  [g EXCEPT !.nodes = Append(@, [op |-> op, qargs |-> qargs, cargs |-> cargs,
                                 condition |-> condition, start |-> start])]

\* dag.remove_op_node(node), for the node at position k.
remove_op_node(g, k) ==
  [g EXCEPT !.nodes = SubSeq(@, 1, k - 1) \o SubSeq(@, k + 1, Len(@))]

\* dag.topological_op_nodes(): input node i may come next when every earlier
\* node that shares a wire with it has been yielded.
ready(i) ==
  /\ i \in 1..Len(dag.nodes)
  /\ i \notin done
  /\ \A j \in 1..(i - 1) :
       wires(dag.nodes[j]) \cap wires(dag.nodes[i]) # {} => j \in done

\* ------------------------------------------------------- ASAPSchedule.run
\* bit_time_available[b] of a defaultdict(int).
Avail(avail, b) == IF b \in DOMAIN avail THEN avail[b] ELSE 0

\* Lines 64-71.  st = [dag, ops]: the graph being built and the heap; each
\* Delay is a new Instruction on lane b alone.
RECURSIVE pad_with_delays(_, _, _, _, _)
pad_with_delays(st, avail, bits, until, unit) ==
  IF bits = <<>> THEN st
  ELSE LET b == Head(bits)
           idle_duration == until - Avail(avail, b)
           isQ == b \in Range(Qubits)
           st1 == IF Avail(avail, b) < until
                  THEN [dag |-> apply_operation_back(st.dag, Len(st.ops) + 1,
                                   IF isQ THEN <<b>> ELSE <<>>,
                                   IF isQ THEN <<>> ELSE <<b>>,
                                   <<>>, Avail(avail, b)),
                        ops |-> Append(st.ops, [name |-> "delay",
                                                duration |-> idle_duration,
                                                unit |-> unit])]
                  ELSE st
       IN pad_with_delays(st1, avail, Tail(bits), until, unit)

\* Line 74.
node_bits(node) == node.qargs \o node.cargs

\* Mutant of start_time: the maximum over the whole time table.
start_time_global(avail, node) == Max({0} \cup {avail[b] : b \in DOMAIN avail})

\* Line 75.
start_time(avail, node) == Max({Avail(avail, b) : b \in Range(node_bits(node))})

\* Mutant of place_node: the node is put at the front of the graph
\* (apply_operation_front).
place_node_front(g, node, start) ==
  [g EXCEPT !.nodes = <<[op |-> node.op, qargs |-> node.qargs, cargs |-> node.cargs,
                         condition |-> node.condition, start |-> start]>> \o @]

\* Line 78: the node is appended with the payload object of the input node.
place_node(g, node, start) ==
  apply_operation_back(g, node.op, node.qargs, node.cargs, node.condition, start)

\* Lines 81-82: the duration and unit are written on the node's payload.
set_duration(heap, op, duration, unit) ==
  [heap EXCEPT ![op].duration = duration, ![op].unit = unit]

\* Lines 86-87.
update_time_table(avail, bits, stop_time) ==
  [b \in DOMAIN avail \cup Range(bits) |->
     IF b \in Range(bits) THEN stop_time ELSE avail[b]]

\* Mutant of circuit_duration: min in place of max.
circuit_duration_min(avail) == Min({avail[b] : b \in DOMAIN avail})

\* Lines 89-90.
circuit_duration(avail) == Max({avail[b] : b \in DOMAIN avail})

\* Mutant of not_physical: only the number of registers is looked at.
not_physical_len(g) == Cardinality(g.qregs) # 1

\* Line 50: len(dag.qregs) != 1 or dag.qregs.get('q', None) is None.
not_physical(g) == Cardinality(g.qregs) # 1 \/ "q" \notin g.qregs

\* Lines 50-60: the precondition, then the empty output graph.
ASAPStart ==
  /\ pc = "asap_start"
  /\ IF not_physical(dag)
     THEN /\ pc' = "asap_precondition_error"
          /\ UNCHANGED new_dag
     ELSE /\ pc' = "asap_loop"
          /\ new_dag' = DAGCircuit(dag.qregs)
  /\ UNCHANGED <<dag, ops, durations, time_unit, bit_time_available, done,
                 result, before, ops_before, qi, removed, runs>>

\* Lines 73-87, one iteration in which self.durations.get succeeds.
PlaceOp(i) ==
  /\ pc = "asap_loop"
  /\ ready(i)
  /\ durations[i] # NoDuration
  /\ LET node == dag.nodes[i]
         start == start_time(bit_time_available, node)
         st == pad_with_delays([dag |-> new_dag, ops |-> ops], bit_time_available,
                               node_bits(node), start, time_unit)
         duration == durations[i]
         stop_time == start + duration
     IN /\ new_dag' = place_node(st.dag, node, start)
        /\ ops' = set_duration(st.ops, node.op, duration, time_unit)
        /\ bit_time_available' =
             update_time_table(bit_time_available, node_bits(node), stop_time)
  /\ done' = done \cup {i}
  /\ UNCHANGED <<dag, durations, time_unit, result, before, ops_before, qi,
                 removed, runs, pc>>

\* Lines 73-79, the iteration in which self.durations.get raises: the frame
\* of run, with new_dag and the paddings made for it, is dropped.
PlaceOpFails(i) ==
  /\ pc = "asap_loop"
  /\ ready(i)
  /\ durations[i] = NoDuration
  /\ pc' = "asap_duration_error"
  /\ new_dag' = NoGraph
  /\ UNCHANGED <<dag, ops, durations, time_unit, bit_time_available, done,
                 result, before, ops_before, qi, removed, runs>>

\* Lines 89-97, when the time table has a key.
ASAPFinish ==
  /\ pc = "asap_loop"
  /\ done = 1..Len(dag.nodes)
  /\ DOMAIN bit_time_available # {}
  /\ LET cd == circuit_duration(bit_time_available)
         st1 == pad_with_delays([dag |-> new_dag, ops |-> ops],
                                bit_time_available, Qubits, cd, time_unit)
         st2 == pad_with_delays(st1, bit_time_available, Clbits, cd, time_unit)
     IN /\ result' = [st2.dag EXCEPT !.duration = cd, !.unit = time_unit]
        /\ ops' = st2.ops
  /\ new_dag' = NoGraph
  /\ pc' = "asap_done"
  /\ UNCHANGED <<dag, durations, time_unit, bit_time_available, done,
                 before, ops_before, qi, removed, runs>>

\* Line 90 when the time table has no key: max() of an empty sequence raises
\* ValueError.
ASAPFinishEmpty ==
  /\ pc = "asap_loop"
  /\ done = 1..Len(dag.nodes)
  /\ DOMAIN bit_time_available = {}
  /\ pc' = "asap_value_error"
  /\ new_dag' = NoGraph
  /\ UNCHANGED <<dag, ops, durations, time_unit, bit_time_available, done,
                 result, before, ops_before, qi, removed, runs>>

\* ------------------------------------------- RemoveDelaysOnIdleQubits.run
\* Mutant of idling: only the first operation of the lane is looked at.
idling_first(g, q) ==
  nodes_on_wire(g, q) # <<>> => isDelay(ops[nodes_on_wire(g, q)[1].op])

\* Lines 40-44.
idling(g, q) ==
  \A k \in 1..Len(nodes_on_wire(g, q)) : isDelay(ops[nodes_on_wire(g, q)[k].op])

\* Mutant of remove_nodes_on_wire: only the first node of the lane is removed.
remove_first_on_wire(g, q) ==
  IF \E k \in 1..Len(g.nodes) : q \in wires(g.nodes[k])
  THEN remove_op_node(g, CHOOSE k \in 1..Len(g.nodes) :
                           /\ q \in wires(g.nodes[k])
                           /\ \A j \in 1..(k - 1) : q \notin wires(g.nodes[j]))
  ELSE g

\* Lines 47-48.
RECURSIVE remove_nodes_on_wire(_, _)
remove_nodes_on_wire(g, q) ==
  IF \E k \in 1..Len(g.nodes) : q \in wires(g.nodes[k])
  THEN LET k == CHOOSE k \in 1..Len(g.nodes) :
                  /\ q \in wires(g.nodes[k])
                  /\ \A j \in 1..(k - 1) : q \notin wires(g.nodes[j])
       IN remove_nodes_on_wire(remove_op_node(g, k), q)
  ELSE g

\* Mutant of per_qubit: the operations are counted, not their durations summed.
per_qubit_count(g, q) == Len(nodes_on_wire(g, q))

\* Line 54.
per_qubit(g, q) ==
  SumSeq([k \in 1..Len(nodes_on_wire(g, q)) |-> ops[nodes_on_wire(g, q)[k].op].duration])

\* Mutant of recomputed_duration: the loop stops after the first qubit.
recomputed_duration_first(g) == Max({0, per_qubit(g, Qubits[1])})

\* Lines 52-55.
recomputed_duration(g) == Max({0} \cup {per_qubit(g, q) : q \in Range(Qubits)})

\* Mutant of not_scheduled: the precondition is never found unmet.
not_scheduled_never(g) == FALSE

\* Line 35: dag.duration is None.
not_scheduled(g) == g.duration = NoDuration

\* Lines 35-38, on the graph ASAPSchedule.run returned or on a graph the
\* caller scheduled.
RemoveStart ==
  /\ pc \in {"asap_done", "remove_start"}
  /\ before' = [dag |-> result, ops |-> ops]
  /\ runs' = runs + 1
  /\ IF not_scheduled(result)
     THEN /\ pc' = "remove_precondition_error"
          /\ UNCHANGED <<qi, removed>>
     ELSE /\ pc' = "remove_loop"
          /\ qi' = 1
          /\ removed' = FALSE
  /\ UNCHANGED <<dag, ops, durations, time_unit, new_dag, bit_time_available,
                 done, result, ops_before>>

\* Lines 39-48, one iteration of the loop over dag.qubits.
RemoveLane ==
  /\ pc = "remove_loop"
  /\ qi <= Len(Qubits)
  /\ IF idling(result, Qubits[qi])
     THEN /\ removed' = TRUE
          /\ result' = remove_nodes_on_wire(result, Qubits[qi])
     ELSE UNCHANGED <<removed, result>>
  /\ qi' = qi + 1
  /\ UNCHANGED <<dag, ops, durations, time_unit, new_dag, bit_time_available,
                 done, before, ops_before, runs, pc>>

\* Lines 50-58.
RemoveFinish ==
  /\ pc = "remove_loop"
  /\ qi > Len(Qubits)
  /\ result' = IF removed
               THEN [result EXCEPT !.duration = recomputed_duration(result)]
               ELSE result
  /\ pc' = "remove_done"
  /\ UNCHANGED <<dag, ops, durations, time_unit, new_dag, bit_time_available,
                 done, before, ops_before, qi, removed, runs>>

\* ------------------------------------------------------------ the system
\* The circuit built upstream: its nodes, each with its own Instruction
\* object, whose duration is not set unless it is a Delay.
InputNodes(circ) ==
  [i \in 1..Len(circ) |->
     [op |-> i, qargs |-> circ[i].shape.qargs, cargs |-> circ[i].shape.cargs,
      condition |-> circ[i].shape.condition, start |-> NoDuration]]

InputOp(c) ==
  [name |-> c.shape.name,
   duration |-> IF isDelay(c.shape) THEN c.d ELSE NoDuration,
   unit |-> "dt"]

QregChoices == {{"q"}, {"qr"}, {"q", "ancilla"}}

Init ==
  \E n \in 0..MaxOps : \E circ \in [1..n -> OpChoices] :
  \E qregs \in QregChoices : \E unit \in Units :
    /\ dag = [DAGCircuit(qregs) EXCEPT !.nodes = InputNodes(circ)]
    /\ ops = [i \in 1..n |-> InputOp(circ[i])]
    /\ durations = [i \in 1..n |-> circ[i].d]
    /\ time_unit = unit
    /\ new_dag = NoGraph
    /\ bit_time_available = <<>>
    /\ done = {}
    /\ result = NoGraph
    /\ before = [dag |-> NoGraph, ops |-> <<>>]
    /\ ops_before = ops
    /\ qi = 0
    /\ removed = FALSE
    /\ runs = 0
    /\ pc = "asap_start"

Next ==
  \/ ASAPStart
  \/ \E i \in 1..MaxOps : PlaceOp(i)
  \/ \E i \in 1..MaxOps : PlaceOpFails(i)
  \/ ASAPFinish
  \/ ASAPFinishEmpty
  \/ RemoveStart
  \/ RemoveLane
  \/ RemoveFinish

Spec == Init /\ [][Next]_vars

\* A circuit the caller has scheduled by hand, as the tests of
\* RemoveDelaysOnIdleQubits do: every operation carries a duration, Delays
\* may lie on either qubit, and the duration of the circuit is whatever the
\* caller wrote, or None when the circuit is not scheduled.
UserShapes ==
  OpShapes \cup
    { [name |-> "delay", qargs |-> <<"q0">>, cargs |-> <<>>, condition |-> <<>>] }

UserChoices == [shape : UserShapes, d : 0..MaxDur]

UserOp(c) == [name |-> c.shape.name, duration |-> c.d, unit |-> "dt"]

InitRemove ==
  \E n \in 0..MaxOps : \E circ \in [1..n -> UserChoices] :
  \E total \in {NoDuration} \cup (0..(MaxOps * MaxDur)) :
    /\ dag = DAGCircuit({"q"})
    /\ ops = [i \in 1..n |-> UserOp(circ[i])]
    /\ durations = <<>>
    /\ time_unit = "dt"
    /\ new_dag = NoGraph
    /\ bit_time_available = <<>>
    /\ done = {}
    /\ result = [DAGCircuit({"q"}) EXCEPT !.nodes = InputNodes(circ),
                                          !.duration = total]
    /\ before = [dag |-> NoGraph, ops |-> <<>>]
    /\ ops_before = ops
    /\ qi = 0
    /\ removed = FALSE
    /\ runs = 0
    /\ pc = "remove_start"

\* The caller runs the pass again on the graph the pass returned.
RemoveAgain ==
  /\ pc = "remove_done"
  /\ runs < MaxRuns
  /\ pc' = "remove_start"
  /\ UNCHANGED <<dag, ops, durations, time_unit, new_dag, bit_time_available,
                 done, result, before, ops_before, qi, removed, runs>>

NextRemove ==
  \/ RemoveStart
  \/ RemoveLane
  \/ RemoveFinish
  \/ RemoveAgain

SpecRemove == InitRemove /\ [][NextRemove]_vars

\* ------------------------------------------------------------ properties
Lanes == Range(Qubits) \cup Range(Clbits)

\* The duration recorded on a node's payload in heap h.
dur(h, n) == h[n.op].duration

\* The input nodes' payload objects.
InputOps == 1..Len(dag.nodes)

isPadding(n) == n.op \notin InputOps

\* The sequence of payload objects on lane l of graph g.
OpsOnWire(g, l) == [k \in 1..Len(nodes_on_wire(g, l)) |-> nodes_on_wire(g, l)[k].op]

\* The durations of the operations on lane l of graph g, in heap h.
DursOnWire(g, h, l) ==
  [k \in 1..Len(nodes_on_wire(g, l)) |-> dur(h, nodes_on_wire(g, l)[k])]

\* C1: in the graph ASAPSchedule.run returns, on every lane (the lanes an
\* operation lies on through its classical condition included) the first
\* operation starts at 0 and each following one starts at the previous
\* operation's start plus the previous operation's duration.
C1_Contiguous ==
  pc = "asap_done" =>
    \A l \in Lanes :
      LET w == nodes_on_wire(result, l)
      IN \A k \in 1..Len(w) :
           w[k].start = IF k = 1 THEN 0 ELSE w[k - 1].start + dur(ops, w[k - 1])

\* The end times of the last operations of the lanes of g that carry one.
LastEnds(g, h) ==
  { LET w == nodes_on_wire(g, l) IN w[Len(w)].start + dur(h, w[Len(w)]) :
      l \in {x \in Lanes : nodes_on_wire(g, x) # <<>>} }

\* C2: in the graph ASAPSchedule.run returns, duration is the maximum over
\* the lanes of the end time (start + duration) of the lane's last operation.
C2_TotalDuration ==
  pc = "asap_done" =>
    /\ LastEnds(result, ops) # {}
    /\ result.duration = Max(LastEnds(result, ops))

\* C2 witness: a returned graph whose lanes were free at different times, so
\* that the maximum is not the only candidate.
C2_Witness ==
  /\ pc = "asap_done"
  /\ \E a, b \in DOMAIN bit_time_available :
       bit_time_available[a] < bit_time_available[b]
  /\ Cardinality(LastEnds(result, ops)) = 1

\* C3: every operation is placed at the maximum of the availability, at that
\* moment, of all the lanes it lies on: operands and classical condition.
C3_StartIsMaxOverTouched ==
  [][\A i \in 1..MaxOps :
       PlaceOp(i) =>
         new_dag'.nodes[Len(new_dag'.nodes)].start =
           Max({Avail(bit_time_available, b) : b \in wires(dag.nodes[i])})]_vars

\* The nodes a step has added on lane l of the graph being built.
AddedOnWire(l) ==
  SubSeq(nodes_on_wire(new_dag', l), Len(nodes_on_wire(new_dag, l)) + 1,
         Len(nodes_on_wire(new_dag', l)))

\* C4: when an operation is placed at s, each lane it lies on with
\* availability a < s gets exactly one padding of duration s - a on that lane
\* alone right before the operation; a lane it lies on with a = s gets the
\* operation alone, and a lane it does not lie on gets nothing.
C4_Padding ==
  [][\A i \in 1..MaxOps :
       PlaceOp(i) =>
         LET s == new_dag'.nodes[Len(new_dag'.nodes)].start
         IN \A l \in Lanes :
              LET a == Avail(bit_time_available, l)
                  added == AddedOnWire(l)
              IN /\ (l \in wires(dag.nodes[i]) /\ a < s) =>
                      /\ Len(added) = 2
                      /\ isPadding(added[1])
                      /\ wires(added[1]) = {l}
                      /\ dur(ops', added[1]) = s - a
                      /\ added[2].op = dag.nodes[i].op
                 /\ (l \in wires(dag.nodes[i]) /\ a = s) =>
                      /\ Len(added) = 1
                      /\ added[1].op = dag.nodes[i].op
                 /\ l \notin wires(dag.nodes[i]) => added = <<>>]_vars

\* C5: in the graph ASAPSchedule.run returns, the durations of the operations
\* on a lane sum to duration, on every lane, and duration is the greatest
\* availability in the time table.
C5_EveryLanePadded ==
  pc = "asap_done" =>
    /\ result.duration = Max({bit_time_available[b] : b \in DOMAIN bit_time_available})
    /\ \A l \in Lanes : SumSeq(DursOnWire(result, ops, l)) = result.duration

\* C6: on every lane the input operations appear in the returned graph in
\* the order they have in the input graph, each with its operands and
\* condition, none dropped or repeated; every other node is a Delay on one
\* lane.
C6_NoReordering ==
  pc = "asap_done" =>
    /\ \A l \in Lanes :
         SelectSeq(OpsOnWire(result, l), LAMBDA o : o \in InputOps) = OpsOnWire(dag, l)
    /\ \A k \in 1..Len(result.nodes) :
         LET n == result.nodes[k]
         IN IF isPadding(n)
            THEN isDelay(ops[n.op]) /\ Cardinality(wires(n)) = 1
            ELSE /\ n.qargs = dag.nodes[n.op].qargs
                 /\ n.cargs = dag.nodes[n.op].cargs
                 /\ n.condition = dag.nodes[n.op].condition
    /\ Len(SelectSeq(result.nodes, LAMBDA n : ~isPadding(n))) = Len(dag.nodes)

\* C6 witness: a returned graph with two input operations on one lane and a
\* padding among its nodes.
C6_Witness ==
  /\ pc = "asap_done"
  /\ \E l \in Lanes : Len(OpsOnWire(dag, l)) = 2
  /\ \E k \in 1..Len(result.nodes) : isPadding(result.nodes[k])

\* C7: a run of ASAPSchedule.run that returns leaves the input graph as it
\* was: its nodes, its duration and unit, and the duration and unit of every
\* input operation.
C7_InputUntouched ==
  pc = "asap_done" =>
    /\ dag.duration = NoDuration
    /\ dag.unit = "dt"
    /\ \A i \in InputOps : ops[i] = ops_before[i]

\* C8: when the duration provider cannot resolve a duration, no graph is
\* returned and every input operation has the duration and unit it had
\* before the run.
C8_AtomicFailure ==
  pc = "asap_duration_error" =>
    /\ result = NoGraph
    /\ \A i \in InputOps : ops[i] = ops_before[i]

\* The lanes of the graph that carried nothing but Delay operations when
\* RemoveDelaysOnIdleQubits.run began.
IdleBefore(l) ==
  \A k \in 1..Len(nodes_on_wire(before.dag, l)) :
    isDelay(before.ops[nodes_on_wire(before.dag, l)[k].op])

\* C9 as stated: after RemoveDelaysOnIdleQubits.run, every lane, quantum or
\* classical, that carried only idle-type operations carries none.
C9_EveryIdleLaneEmptied ==
  pc = "remove_done" =>
    \A l \in Lanes : IdleBefore(l) => nodes_on_wire(result, l) = <<>>

\* C9 as amended: after RemoveDelaysOnIdleQubits.run, every quantum lane
\* that carried only idle-type operations carries none.
C9_EveryIdleQubitEmptied ==
  pc = "remove_done" =>
    \A q \in Range(Qubits) : IdleBefore(q) => nodes_on_wire(result, q) = <<>>

\* C9 witness: a quantum lane that carried two Delays and carries none.
C9_Witness ==
  /\ pc = "remove_done"
  /\ \E q \in Range(Qubits) :
       /\ IdleBefore(q)
       /\ Len(nodes_on_wire(before.dag, q)) = 2
       /\ nodes_on_wire(result, q) = <<>>

\* C10: RemoveDelaysOnIdleQubits.run leaves a lane that carries a non-idle
\* operation as it was: the same operations, Delays included, in the same
\* order with the same durations.
C10_BusyLaneUntouched ==
  pc = "remove_done" =>
    \A l \in Lanes :
      ~IdleBefore(l) =>
        /\ nodes_on_wire(result, l) = nodes_on_wire(before.dag, l)
        /\ DursOnWire(result, ops, l) = DursOnWire(before.dag, before.ops, l)

\* C10 witness: a run that removed the Delays of one lane and kept a lane
\* that carries a Delay and a non-idle operation.
C10_Witness ==
  /\ pc = "remove_done"
  /\ result # before.dag
  /\ \E l \in Lanes :
       /\ ~IdleBefore(l)
       /\ \E k \in 1..Len(nodes_on_wire(result, l)) :
            isDelay(ops[nodes_on_wire(result, l)[k].op])


\* The greatest sum of the durations on a lane of g, over the lanes in L.
MaxLaneSum(g, h, L) == Max({0} \cup {SumSeq(DursOnWire(g, h, l)) : l \in L})

\* C11 as stated: when RemoveDelaysOnIdleQubits.run has removed an operation,
\* duration is the maximum over all lanes, quantum and classical, of the sum
\* of the durations left on the lane (0 when nothing is left).
C11_DurationOverAllLanes ==
  (pc = "remove_done" /\ result.nodes # before.dag.nodes) =>
    result.duration = MaxLaneSum(result, ops, Lanes)

\* C11 as amended: when RemoveDelaysOnIdleQubits.run has removed an
\* operation, duration is the maximum over the quantum lanes of the sum of
\* the durations left on the lane (0 when no quantum lane carries anything).
C11_DurationOverQubits ==
  (pc = "remove_done" /\ result.nodes # before.dag.nodes) =>
    result.duration = MaxLaneSum(result, ops, Range(Qubits))

\* C11 witness: a run that removed an operation and left a quantum lane with
\* operations of positive total duration.
C11_Witness ==
  /\ pc = "remove_done"
  /\ result.nodes # before.dag.nodes
  /\ result.duration > 0
  /\ \E q \in Range(Qubits) : Len(nodes_on_wire(result, q)) >= 2

\* C12: running RemoveDelaysOnIdleQubits.run on its own result changes
\* neither the operations nor duration.
C12_Idempotent ==
  (pc = "remove_done" /\ runs >= 2) =>
    /\ result = before.dag
    /\ ops = before.ops

\* C12 witness: the end of a second run on a graph from which the first run
\* had removed operations and in which it had left some.
C12_Witness ==
  /\ pc = "remove_done"
  /\ runs = 2
  /\ Len(result.nodes) < Len(ops)
  /\ result.nodes # <<>>

\* ASAPSchedule.run with the input nodes taken in the order of the input
\* circuit, from node i on; st = [dag, ops, avail].
RECURSIVE ScheduleFrom(_, _)
ScheduleFrom(st, i) ==
  IF i > Len(dag.nodes) THEN st
  ELSE LET node == dag.nodes[i]
           start == start_time(st.avail, node)
           pd == pad_with_delays([dag |-> st.dag, ops |-> st.ops], st.avail,
                                 node_bits(node), start, time_unit)
       IN ScheduleFrom(
            [dag |-> place_node(pd.dag, node, start),
             ops |-> set_duration(pd.ops, node.op, durations[i], time_unit),
             avail |-> update_time_table(st.avail, node_bits(node),
                                         start + durations[i])],
            i + 1)

ScheduleInOrder ==
  LET st == ScheduleFrom([dag |-> DAGCircuit(dag.qregs), ops |-> ops_before,
                          avail |-> <<>>], 1)
      cd == circuit_duration(st.avail)
      st1 == pad_with_delays([dag |-> st.dag, ops |-> st.ops], st.avail,
                             Qubits, cd, time_unit)
      st2 == pad_with_delays(st1, st.avail, Clbits, cd, time_unit)
  IN [dag |-> [st2.dag EXCEPT !.duration = cd, !.unit = time_unit],
      ops |-> st2.ops]

\* What lane l of graph g shows: which input operation or a padding, with
\* its duration, unit and start.
LaneView(g, h, l) ==
  [k \in 1..Len(nodes_on_wire(g, l)) |->
     LET n == nodes_on_wire(g, l)[k]
     IN [op |-> IF isPadding(n) THEN 0 ELSE n.op,
         duration |-> dur(h, n), unit |-> h[n.op].unit, start |-> n.start]]

\* C13: whatever dependency-respecting order the traversal takes, the graph
\* ASAPSchedule.run returns shows on every lane the operations and paddings,
\* with the durations and starts, of the run that takes the input order, and
\* has its duration and unit.
C13_Deterministic ==
  pc = "asap_done" =>
    /\ result.duration = ScheduleInOrder.dag.duration
    /\ result.unit = ScheduleInOrder.dag.unit
    /\ \A l \in Lanes :
         LaneView(result, ops, l) = LaneView(ScheduleInOrder.dag, ScheduleInOrder.ops, l)

\* C13 witness: a returned graph built by a traversal that took a later
\* input node before an earlier one, with a padding among its nodes.
C13_Witness ==
  /\ pc = "asap_done"
  /\ \E j, k \in 1..Len(result.nodes) :
       /\ j < k
       /\ ~isPadding(result.nodes[j])
       /\ ~isPadding(result.nodes[k])
       /\ result.nodes[j].op > result.nodes[k].op
  /\ \E k \in 1..Len(result.nodes) : isPadding(result.nodes[k])

C15_ASAPPrecondition ==
  /\ pc = "asap_precondition_error" =>
       /\ dag.qregs # {"q"}
       /\ done = {}
       /\ new_dag = NoGraph
       /\ result = NoGraph
       /\ ops = ops_before
  /\ dag.qregs # {"q"} => pc \in {"asap_start", "asap_precondition_error"}

\* C15 witness: the pass has raised on a graph with operations whose one
\* register is not named q.
C15_Witness ==
  /\ pc = "asap_precondition_error"
  /\ dag.qregs = {"qr"}
  /\ Len(dag.nodes) = MaxOps

\* C16 as stated: the duration RemoveDelaysOnIdleQubits.run leaves is the one
\* an unconditional recomputation gives, the maximum over the lanes of the
\* sum of the durations left on the lane.
C16_SkipIsOptimization ==
  pc = "remove_done" => result.duration = MaxLaneSum(result, ops, Lanes)

\* C16 as amended: on a graph whose duration is the maximum over the quantum
\* lanes of the sum of the durations on the lane, the duration
\* RemoveDelaysOnIdleQubits.run leaves is the maximum over the quantum lanes
\* of the sum of the durations left on the lane.
C16_SkipIsOptimizationOnQubits ==
  (pc = "remove_done" /\
   before.dag.duration = MaxLaneSum(before.dag, before.ops, Range(Qubits))) =>
    result.duration = MaxLaneSum(result, ops, Range(Qubits))

\* C16 witness: a first run on such a graph that removed nothing, skipped
\* the recomputation and left a positive duration.
C16_Witness ==
  /\ pc = "remove_done"
  /\ runs = 1
  /\ ~removed
  /\ before.dag.duration = MaxLaneSum(before.dag, before.ops, Range(Qubits))
  /\ result.duration > 0

\* C17: in the graph ASAPSchedule.run returns, an operation starts no
\* earlier than the end of every input operation that precedes it on a lane
\* both lie on, through operands or through a classical condition.
C17_StartsAfterPredecessors ==
  pc = "asap_done" =>
    \A j, k \in 1..Len(result.nodes) :
      LET m == result.nodes[j]
          n == result.nodes[k]
      IN (/\ ~isPadding(m)
          /\ ~isPadding(n)
          /\ m.op < n.op
          /\ wires(m) \cap wires(n) # {}) =>
           n.start >= m.start + dur(ops, m)

\* C18: on a graph of the one register q whose operations all have a
\* resolvable duration, ASAPSchedule.run raises nothing and returns a graph
\* with a duration, 0 for the graph without operations.
C18_OnlyDeclaredFailures ==
  (dag.qregs = {"q"} /\ \A i \in InputOps : durations[i] # NoDuration) =>
    /\ pc \notin {"asap_precondition_error", "asap_duration_error", "asap_value_error"}
    /\ pc = "asap_done" =>
         /\ result.duration # NoDuration
         /\ dag.nodes = <<>> => result.duration = 0

\* C19: RemoveDelaysOnIdleQubits.run on a graph ASAPSchedule.run returned
\* leaves duration as it was when a quantum lane carried a non-idle
\* operation, and leaves 0 when every lane carried idle-type operations only.
C19_Composition ==
  pc = "remove_done" =>
    /\ (\E q \in Range(Qubits) : ~IdleBefore(q)) =>
         result.duration = before.dag.duration
    /\ (\A l \in Lanes : IdleBefore(l)) => result.duration = 0

\* C19 witness: a run that emptied an idle quantum lane of a scheduled graph
\* of positive duration and kept a quantum lane with a non-idle operation.
C19_Witness ==
  /\ pc = "remove_done"
  /\ before.dag.duration > 0
  /\ \E q \in Range(Qubits) : ~IdleBefore(q)
  /\ \E q \in Range(Qubits) :
       /\ nodes_on_wire(before.dag, q) # <<>>
       /\ nodes_on_wire(result, q) = <<>>


====
